---- MODULE Spec2Model ----
(***************************************************************************)
(* EmoTrack: the sampling-and-batching pipeline of the capture session     *)
(* (src/EmoTrack.py, the standalone app, and src/frontend/app.py, the      *)
(* frontend of the client/server build), the classifier wrapper            *)
(* (src/logic/facial_analysis.py, src/backend/app.py) and the emotion      *)
(* store behind the backend API (src/backend/app.py), and the migration    *)
(* script (src/migrate_data.py).                                           *)
(*                                                                         *)
(* Spec          the capture session of one browser session, either build  *)
(* SpecStore     the store: several connections inserting, clearing,       *)
(*               reading                                                   *)
(* SpecSave      the writers of the store, save requests of any body       *)
(* SpecQuery     the read queries on a store holding any rows              *)
(* SpecClassify  the classifier wrappers on any answer of the service      *)
(* SpecMigrate   runs of the migration script, each step of which can fail *)
(* SpecCamera    several browser sessions starting and stopping on the one *)
(*               camera                                                    *)
(***************************************************************************)
EXTENDS Integers, Sequences, FiniteSets, TLC

(***************************************************************************)
(* Sizes.  The three program constants of the capture loop are scaled down *)
(* (the source has BATCH_SIZE = 60, a sample every 24 frames and 1440      *)
(* frames per script run); the properties below are stated in terms of the *)
(* names, never of the numbers.                                            *)
(***************************************************************************)
BATCH_SIZE == 2
FRAME_SAMPLE_RATE == 2
FramesPerRun == 3
MaxFrames == 8
MaxClock == 1
MaxBatch == 2
MaxRows == 3
MaxId == 4
SecondsPerDay == 2
MaxEntries == 2
MaxRuns == 2

NoFace == "NO FACE"
None == "None"

Variants == {"standalone", "frontend"}

VARIABLES
    variant,         \* which build runs the capture session
    running,         \* st.session_state.running
    emotions_batch,  \* st.session_state.emotions_batch
    frame_count,     \* st.session_state.frame_count
    pc,              \* script position: "idle", "rerun" (a run is starting), "loop"
    i,               \* iterations of the for loop done in this script run
    camera,          \* "none", or "open": a VideoCapture not yet released
    clock,           \* wall clock (datetime.now(), CURRENT_TIMESTAMP)
    store,           \* committed rows of table emotions, in rowid order
    nextId,          \* the AUTOINCREMENT sequence of the table
    ev,              \* what the last step of the session did
    recorded,        \* every classification result the loop received, in order
    handed,          \* every record passed to save_emotions_batch, in order
    conn,            \* per connection: the request in progress and its transaction
    lock,            \* the connection holding the database write lock, or 0
    resp,            \* the response the last step sent, if it sent one
    saved,           \* records saved by successful requests since the last clear
    files,           \* the database files the migration script reads and writes
    mig,             \* the run of migrate_database in progress, or the last one
    tabs             \* per browser session on the one camera: its running flag,
                     \* script position, VideoCapture, frames read this run, last step

sessVars == <<variant, running, emotions_batch, frame_count, pc, i, camera,
              ev, recorded, handed>>
dbVars == <<store, nextId>>
apiVars == <<conn, lock, resp, saved>>
migVars == <<files, mig>>
camVars == <<tabs>>
vars == <<sessVars, dbVars, apiVars, migVars, camVars, clock>>

(***************************************************************************)
(* The classifier service: a call either cannot be encoded, fails in       *)
(* transport or in the service, or answers with a list of faces, each with *)
(* its list of emotion labels in the order the service returned them.      *)
(***************************************************************************)
ServiceCalls ==
    { [encoded |-> FALSE, status |-> "ok", faces |-> <<>>],
      [encoded |-> TRUE, status |-> "error", faces |-> <<>>],
      [encoded |-> TRUE, status |-> "ok", faces |-> <<>>],
      [encoded |-> TRUE, status |-> "ok", faces |-> << <<>> >>],
      [encoded |-> TRUE, status |-> "ok", faces |-> << <<"HAPPY", "SAD">> >>],
      [encoded |-> TRUE, status |-> "ok", faces |-> << <<"SAD">>, <<"HAPPY">> >>] }

NoCall == [encoded |-> TRUE, status |-> "none", faces |-> <<>>]

Raised == [raised |-> TRUE, value |-> None]
Returned(v) == [raised |-> FALSE, value |-> v]

\* how often one classification calls client.detect_faces: not at all when
\* the frame cannot be encoded, once otherwise
detect_faces_calls(call) == IF ~call.encoded THEN 0 ELSE 1

\* (fault) a wrapper that reports a failed call as a frame without a face
detect_emotion_Swallowing(call) ==
    IF ~call.encoded THEN Returned(NoFace)
    ELSE IF call.status # "ok" THEN Returned(NoFace)
    ELSE IF call.faces = <<>> THEN Returned(NoFace)
    ELSE IF call.faces[1] = <<>> THEN Raised
    ELSE Returned(call.faces[1][1])

\* (fault) the label taken from the last face of the response
detect_emotion_LastFace(call) ==
    IF ~call.encoded THEN Raised
    ELSE IF call.status # "ok" THEN Raised
    ELSE IF call.faces = <<>> THEN Returned(NoFace)
    ELSE IF call.faces[Len(call.faces)] = <<>> THEN Raised
    ELSE Returned(call.faces[Len(call.faces)][1])

\* logic/facial_analysis.py detect_emotion
detect_emotion(call) ==
    IF ~call.encoded THEN Raised
    ELSE IF call.status # "ok" THEN Raised
    ELSE IF call.faces = <<>> THEN Returned(NoFace)
    ELSE IF call.faces[1] = <<>> THEN Raised
    ELSE Returned(call.faces[1][1])

\* backend/app.py POST /detect-emotion: the "emotion" of the reply, or a 500
backend_detect_emotion(call) ==
    IF call.status # "ok" THEN Raised
    ELSE IF call.faces = <<>> THEN Returned(NoFace)
    ELSE IF call.faces[1] = <<>> THEN Raised
    ELSE Returned(call.faces[1][1])

\* frontend/app.py detect_emotion_api: the reply, or None on any failure
detect_emotion_api(call) ==
    IF ~call.encoded THEN Returned(None)
    ELSE IF backend_detect_emotion(call).raised THEN Returned(None)
    ELSE backend_detect_emotion(call)

Classify(v, call) ==
    IF v = "standalone" THEN detect_emotion(call) ELSE detect_emotion_api(call)

\* (fault) the append without the sentinel filter
ShouldRecordUnfiltered(v, res) == res.value # None

\* the filter in front of the append
ShouldRecord(v, res) ==
    IF v = "standalone" THEN res.value # NoFace
    ELSE res.value # None /\ res.value # NoFace

\* (fault) a threshold test that misses the exact threshold
BatchFullStrict(batch) == Len(batch) > BATCH_SIZE

\* (fault) a threshold test that fires at the exact threshold only
BatchFullExact(batch) == Len(batch) = BATCH_SIZE

\* the threshold test after the append
BatchFull(batch) == Len(batch) >= BATCH_SIZE

(***************************************************************************)
(* The store's bulk insert: one row per record, ids from the sequence.     *)
(***************************************************************************)
NewRows(batch, first, now) ==
    [k \in 1..Len(batch) |->
        [id |-> first + k - 1, timestamp |-> batch[k].timestamp,
         emotion |-> batch[k].emotion, created_at |-> now]]

\* (fault) an insert that skips a record equal to one already inserted
InsertRowsDistinct(rows, batch, first, now) ==
    rows \o SelectSeq(NewRows(batch, first, now),
                      LAMBDA r : \A k \in 1..Len(rows) :
                          rows[k].timestamp # r.timestamp \/ rows[k].emotion # r.emotion)

\* cursor.executemany("INSERT INTO emotions (timestamp, emotion) VALUES (?, ?)")
InsertRows(rows, batch, first, now) == rows \o NewRows(batch, first, now)

\* save_emotions_batch of either build, given whether the store write works:
\* the standalone one raises on failure, the frontend one returns False
save_emotions_batch(v, storeOk) ==
    IF storeOk THEN [raised |-> FALSE, saved |-> TRUE]
    ELSE IF v = "standalone" THEN [raised |-> TRUE, saved |-> FALSE]
    ELSE [raised |-> FALSE, saved |-> FALSE]

\* the statement after the call to save_emotions_batch: emotions_batch = []
AfterFlush(batch, out) == IF out.raised THEN batch ELSE <<>>

FlushResult(out) == IF out.saved THEN "ok" ELSE "fail"

Event(op) ==
    [op |-> op, sampled |-> FALSE, call |-> NoCall, res |-> Returned(None),
     calls |-> 0, appended |-> FALSE, size |-> 0, flush |-> "none",
     batch |-> <<>>]

(***************************************************************************)
(* Connections to the store                                                *)
(***************************************************************************)
Clients == {1, 2}

Idle == [op |-> "none", confirm |-> FALSE, batch |-> <<>>, k |-> 0, pending |-> <<>>]

NoResp == [op |-> "none", status |-> 0]

(***************************************************************************)
(* Database files.  A file is missing, is not a database, or is a database *)
(* with the columns and rows of its table emotions (no columns: no such    *)
(* table) and, if it has a table emotions_new, that table's rows.          *)
(***************************************************************************)
Missing == [kind |-> "missing", columns |-> <<>>, rows |-> <<>>, staged |-> <<>>]

Corrupt == [kind |-> "corrupt", columns |-> <<>>, rows |-> <<>>, staged |-> <<>>]

Database(columns, rows) ==
    [kind |-> "db", columns |-> columns, rows |-> rows, staged |-> <<>>]

\* the two files of migrate_database and the backups it made, by the time
\* in their names
NoFiles == [old |-> Missing, new |-> Missing,
            backups |-> [t \in 0..MaxClock |-> Missing]]

NoRun == [pc |-> "idle", runs |-> 0, outcome |-> "none", at |-> 0,
          src |-> Missing, pre |-> Missing, overwritten |-> FALSE,
          tx |-> Missing, done |-> Missing, before |-> Missing]

\* the browser sessions that share the machine's one camera
Tabs == {1, 2}

\* a browser session before Start: its own st.session_state, no script run
NoTab == [running |-> FALSE, pc |-> "idle", cap |-> "none", i |-> 0, ev |-> "init"]

NoTabs == [t \in Tabs |-> NoTab]

(***************************************************************************)
(* The session                                                             *)
(***************************************************************************)
Init ==
    /\ variant \in Variants
    /\ running = FALSE
    /\ emotions_batch = <<>>
    /\ frame_count = 0
    /\ pc = "idle"
    /\ i = 0
    /\ camera = "none"
    /\ clock = 0
    /\ store = <<>>
    /\ nextId = 1
    /\ ev = Event("init")
    /\ recorded = <<>>
    /\ handed = <<>>
    /\ conn = [c \in Clients |-> Idle]
    /\ lock = 0
    /\ resp = NoResp
    /\ saved = 0
    /\ files = NoFiles
    /\ mig = NoRun
    /\ tabs = NoTabs

\* the Start button
ClickStart ==
    /\ pc = "idle"
    /\ ~running
    /\ running' = TRUE
    /\ emotions_batch' = <<>>
    /\ pc' = "rerun"
    /\ ev' = Event("start")
    /\ UNCHANGED <<variant, frame_count, i, camera, clock, store, nextId,
                   recorded, handed>>
    /\ UNCHANGED <<apiVars, migVars, camVars>>

\* The Stop button.  A click while the loop runs ends that script run at its
\* next display call (the runner unwinds it), so the run never reaches
\* cap.release(); the handler then runs in the next script run.
ClickStop ==
    /\ pc \in {"idle", "loop"}
    /\ running
    /\ \E storeOk \in BOOLEAN :
        LET flushes == emotions_batch # <<>>
            out == save_emotions_batch(variant, storeOk)
        IN  /\ running' = FALSE
            /\ emotions_batch' =
                 IF flushes THEN AfterFlush(emotions_batch, out) ELSE emotions_batch
            /\ store' = IF flushes /\ out.saved
                        THEN InsertRows(store, emotions_batch, nextId, clock)
                        ELSE store
            /\ nextId' = IF flushes /\ out.saved
                         THEN nextId + Len(emotions_batch) ELSE nextId
            /\ handed' = IF flushes THEN handed \o emotions_batch ELSE handed
            /\ pc' = IF flushes /\ out.raised THEN "idle" ELSE "rerun"
            /\ ev' = [Event("stop") EXCEPT
                        !.flush = IF flushes THEN FlushResult(out) ELSE "none",
                        !.batch = IF flushes THEN emotions_batch ELSE <<>>]
    /\ i' = 0
    /\ UNCHANGED <<variant, frame_count, camera, clock, recorded>>
    /\ UNCHANGED <<apiVars, migVars, camVars>>

\* any other interaction with the page while tracking: the script is rerun
Rerun ==
    /\ pc \in {"idle", "loop"}
    /\ running
    /\ pc' = "rerun"
    /\ i' = 0
    /\ ev' = Event("rerun")
    /\ UNCHANGED <<variant, running, emotions_batch, frame_count, camera, clock,
                   store, nextId, recorded, handed>>
    /\ UNCHANGED <<apiVars, migVars, camVars>>

\* a script run from the top down to the for loop
ScriptRun ==
    /\ pc = "rerun"
    /\ IF running
       THEN /\ camera' = "open"
            /\ pc' = "loop"
       ELSE /\ camera' = camera
            /\ pc' = "idle"
    /\ i' = 0
    /\ ev' = Event("run")
    /\ UNCHANGED <<variant, running, emotions_batch, frame_count, clock, store,
                   nextId, recorded, handed>>
    /\ UNCHANGED <<apiVars, migVars, camVars>>

\* after the loop: cap.release(), then st.rerun() if still running
LoopExit ==
    /\ pc = "loop"
    /\ i = FramesPerRun \/ ~running
    /\ camera' = "none"
    /\ pc' = IF running THEN "rerun" ELSE "idle"
    /\ i' = 0
    /\ ev' = Event("exit")
    /\ UNCHANGED <<variant, running, emotions_batch, frame_count, clock, store,
                   nextId, recorded, handed>>
    /\ UNCHANGED <<apiVars, migVars, camVars>>

\* (fault) a read failure that leaves the session running
RunningAfterReadFailureKept == TRUE

\* st.session_state.running = False
RunningAfterReadFailure == FALSE

\* cap.read() fails: warning, running = False, break; then cap.release()
\* and, were the session still running, st.rerun()
ReadFail ==
    /\ pc = "loop"
    /\ i < FramesPerRun
    /\ running
    /\ running' = RunningAfterReadFailure
    /\ camera' = "none"
    /\ pc' = IF running' THEN "rerun" ELSE "idle"
    /\ i' = 0
    /\ ev' = Event("readfail")
    /\ UNCHANGED <<variant, emotions_batch, frame_count, clock, store, nextId,
                   recorded, handed>>
    /\ UNCHANGED <<apiVars, migVars, camVars>>

\* (fault) a record put at the head of the batch
InsertRecordFirst(batch, rec) == <<rec>> \o batch

\* st.session_state.emotions_batch.append(...)
AppendRecord(batch, rec) == Append(batch, rec)

\* (fault) the test made on the counter as it was before the increment
IsSampleFrameBeforeIncrement(count) == (count - 1) % FRAME_SAMPLE_RATE = 0

\* if st.session_state.frame_count % 24 == 0, after frame_count += 1
IsSampleFrame(count) == count % FRAME_SAMPLE_RATE = 0

\* a frame that is not sampled
FrameSkipped ==
    /\ pc = "loop"
    /\ i < FramesPerRun
    /\ running
    /\ frame_count < MaxFrames
    /\ ~IsSampleFrame(frame_count + 1)
    /\ frame_count' = frame_count + 1
    /\ i' = i + 1
    /\ ev' = Event("frame")
    /\ UNCHANGED <<variant, running, emotions_batch, pc, camera, clock, store,
                   nextId, recorded, handed>>
    /\ UNCHANGED <<apiVars, migVars, camVars>>

\* a sampled frame: classify, append, flush when the batch is full.  The
\* classifier call takes d ticks of the clock.
FrameSampled ==
    /\ pc = "loop"
    /\ i < FramesPerRun
    /\ running
    /\ frame_count < MaxFrames
    /\ IsSampleFrame(frame_count + 1)
    /\ \E call \in ServiceCalls, d \in 0..1, storeOk \in BOOLEAN :
        LET res == Classify(variant, call)
            keep == ~res.raised /\ ShouldRecord(variant, res)
            rec == [timestamp |-> clock + d, emotion |-> res.value]
            batch == IF keep THEN AppendRecord(emotions_batch, rec) ELSE emotions_batch
            flushes == keep /\ BatchFull(batch)
            out == save_emotions_batch(variant, storeOk)
            dies == res.raised \/ (flushes /\ out.raised)
        IN  /\ clock + d <= MaxClock
            /\ clock' = clock + d
            /\ frame_count' = frame_count + 1
            /\ emotions_batch' = IF flushes THEN AfterFlush(batch, out) ELSE batch
            /\ store' = IF flushes /\ out.saved
                        THEN InsertRows(store, batch, nextId, clock + d) ELSE store
            /\ nextId' = IF flushes /\ out.saved THEN nextId + Len(batch) ELSE nextId
            /\ recorded' = IF res.raised \/ res.value = None THEN recorded
                           ELSE Append(recorded, rec)
            /\ handed' = IF flushes THEN handed \o batch ELSE handed
            /\ pc' = IF dies THEN "idle" ELSE "loop"
            /\ i' = IF dies THEN 0 ELSE i + 1
            /\ ev' = [op |-> "sample", sampled |-> TRUE, call |-> call,
                      res |-> res, calls |-> detect_faces_calls(call),
                      appended |-> keep, size |-> Len(batch),
                      flush |-> IF flushes THEN FlushResult(out) ELSE "none",
                      batch |-> IF flushes THEN batch ELSE <<>>]
    /\ UNCHANGED <<variant, running, camera>>
    /\ UNCHANGED <<apiVars, migVars, camVars>>

Next ==
    \/ ClickStart
    \/ ClickStop
    \/ Rerun
    \/ ScriptRun
    \/ LoopExit
    \/ ReadFail
    \/ FrameSkipped
    \/ FrameSampled

Spec == Init /\ [][Next]_vars

(***************************************************************************)
(* The store: table emotions behind the API of backend/app.py.  Every      *)
(* request opens its own connection (get_db); a write takes the database   *)
(* write lock with its first statement and holds it until the connection   *)
(* commits or is closed, and readers see committed rows only.              *)
(***************************************************************************)
Emotions == {"HAPPY", "SAD"}

RecordSet == [timestamp : {0, SecondsPerDay}, emotion : Emotions]

Batches == UNION { [1..n -> RecordSet] : n \in 0..MaxBatch }

Null == <<>>
Some(v) == <<v>>

\* DATE(DATETIME(timestamp, 'unixepoch')): the calendar day of a timestamp
DateOf(ts) == ts \div SecondsPerDay

\* (fault) the division without the cast: an integer division
PercentageIntegerDivision(count, total) == (count \div total) * 100 * 100

\* ROUND(CAST(count AS FLOAT) / total * 100, 2), in hundredths of a percent
Percentage(count, total) == (2 * 10000 * count + total) \div (2 * total)

CountWhere(rows, P(_)) == Cardinality({k \in 1..Len(rows) : P(rows[k])})

\* ORDER BY timestamp DESC, rows of equal timestamp in rowid order
RECURSIVE InsertDesc(_, _)
InsertDesc(sorted, r) ==
    IF sorted = <<>> THEN <<r>>
    ELSE IF r.timestamp > Head(sorted).timestamp THEN <<r>> \o sorted
    ELSE <<Head(sorted)>> \o InsertDesc(Tail(sorted), r)

\* (fault) a query without its ORDER BY
OrderByRowid(rows) == rows

RECURSIVE OrderByTimestampDesc(_)
OrderByTimestampDesc(rows) ==
    IF rows = <<>> THEN <<>>
    ELSE InsertDesc(OrderByTimestampDesc(SubSeq(rows, 1, Len(rows) - 1)),
                    rows[Len(rows)])

RECURSIVE MinTimestamp(_)
MinTimestamp(rows) ==
    IF rows = <<>> THEN Null
    ELSE LET rest == MinTimestamp(Tail(rows))
         IN  IF rest = Null \/ Head(rows).timestamp < rest[1]
             THEN Some(Head(rows).timestamp) ELSE rest

RECURSIVE MaxTimestamp(_)
MaxTimestamp(rows) ==
    IF rows = <<>> THEN Null
    ELSE LET rest == MaxTimestamp(Tail(rows))
         IN  IF rest = Null \/ Head(rows).timestamp > rest[1]
             THEN Some(Head(rows).timestamp) ELSE rest

\* DATE(DATETIME(x, 'unixepoch')) of an aggregate, NULL for NULL
DateOfAggregate(x) == IF x = Null THEN Null ELSE Some(DateOf(x[1]))

\* (fault) an aggregate that reads 0 where there are no rows
DateRangeZero(rows) == [start |-> Some(DateOf(0)), end |-> Some(DateOf(0))]

\* get_emotion_summary: the date range query
DateRange(rows) ==
    [start |-> DateOfAggregate(MinTimestamp(rows)),
     end |-> DateOfAggregate(MaxTimestamp(rows))]

\* get_emotion_summary: the distribution query
Distribution(rows, total) ==
    [e \in {rows[k].emotion : k \in 1..Len(rows)} |->
        LET count == CountWhere(rows, LAMBDA r : r.emotion = e)
        IN  [count |-> count, percentage |-> Percentage(count, total)]]

\* get_emotion_summary: the most recent record
MostRecent(rows) ==
    LET recent == OrderByTimestampDesc(rows)
    IN  IF recent = <<>> THEN [emotion |-> Null, timestamp |-> Null]
        ELSE [emotion |-> Some(recent[1].emotion),
              timestamp |-> Some(recent[1].timestamp)]

\* GET /emotions/summary
get_emotion_summary(rows) ==
    LET total_count == Len(rows)
    IN  [total_emotions_recorded |-> total_count,
         emotion_distribution |-> Distribution(rows, total_count),
         most_recent |-> MostRecent(rows),
         date_range |-> DateRange(rows)]

\* (fault) date_totals without its GROUP BY date: one total for all dates
DateTotalUngrouped(inRange, d) == Len(inRange)

\* get_daily_emotion_stats: the date_totals subquery, SUM(emotion_count) of
\* one date
DateTotal(inRange, d) == CountWhere(inRange, LAMBDA r : DateOf(r.timestamp) = d)

\* (fault) a window test that keeps every row
InWindowAlways(r, start_timestamp) == TRUE

\* get_daily_emotion_stats: WHERE timestamp >= ?
InWindow(r, start_timestamp) == r.timestamp >= start_timestamp

\* GET /emotions/daily-stats: one entry per (date, emotion) among the rows
\* with timestamp >= now - days, the percentage taken of the date's total
\* among those rows
get_daily_emotion_stats(rows, days, now) ==
    LET start_timestamp == now - days * SecondsPerDay
        inRange == SelectSeq(rows, LAMBDA r : InWindow(r, start_timestamp))
        groups == {<<DateOf(inRange[k].timestamp), inRange[k].emotion>> :
                      k \in 1..Len(inRange)}
        countOf(g) == CountWhere(inRange,
                        LAMBDA r : DateOf(r.timestamp) = g[1] /\ r.emotion = g[2])
    IN  { [date |-> g[1], emotion |-> g[2], count |-> countOf(g),
           percentage |-> Percentage(countOf(g), DateTotal(inRange, g[1]))] :
          g \in groups }

\* the columns of table emotions
Schema == <<"id", "timestamp", "emotion", "created_at">>

\* export_emotions: the columns the query selects, which are the keys of
\* every exported row
ExportFields == <<"timestamp", "emotion", "created_at">>

ExportRow(r) ==
    [timestamp |-> r.timestamp, emotion |-> r.emotion, created_at |-> r.created_at]

\* csv.DictWriter: a row is written as its values in the order of the
\* fieldnames, the keys are in the header line only
CsvLine(row) == [k \in 1..Len(ExportFields) |-> row[ExportFields[k]]]

\* GET /emotions/export: the rows as records (json), or the header line and
\* one line per row (csv); the csv of no rows is the empty text
export_emotions(rows, format) ==
    LET sorted == OrderByTimestampDesc(rows)
        data == [k \in 1..Len(sorted) |-> ExportRow(sorted[k])]
    IN  IF format = "csv"
        THEN [format |-> "csv",
              header |-> IF data # <<>> THEN ExportFields ELSE <<>>,
              data |-> [k \in 1..Len(data) |-> CsvLine(data[k])]]
        ELSE [format |-> "json", header |-> <<>>, data |-> data]

\* (fault) a clear that never asks for the confirmation
ConfirmNeverMissing(confirm) == FALSE

\* clear_emotions: if not confirm
ConfirmMissing(confirm) == ~confirm

\* (fault) a failed request whose inserted rows are committed all the same
RolledBackPartial(pending) == pending

\* get_db closes the connection without commit: the transaction is undone
RolledBack(pending) == <<>>

\* the store as init_db leaves it, at the time the requests are served
StoreInit ==
    /\ variant = "frontend"
    /\ running = FALSE
    /\ emotions_batch = <<>>
    /\ frame_count = 0
    /\ pc = "idle"
    /\ i = 0
    /\ camera = "none"
    /\ clock \in {0, MaxClock}
    /\ store = <<>>
    /\ nextId = 1
    /\ ev = Event("init")
    /\ recorded = <<>>
    /\ handed = <<>>
    /\ conn = [c \in Clients |-> Idle]
    /\ lock = 0
    /\ resp = NoResp
    /\ saved = 0
    /\ files = NoFiles
    /\ mig = NoRun
    /\ tabs = NoTabs

\* What a request body can hold in place of a record's values: a timestamp
\* that is not a number (the string "invalid" of the tests), and no key
\* emotion at all.
NotANumber == 0 - 1
Absent == ""

InvalidRecords ==
    { [timestamp |-> NotANumber, emotion |-> "HAPPY"],
      [timestamp |-> 0, emotion |-> Absent] }

\* bodies with an invalid record alone, before or after a well-formed one
InvalidBodies ==
    { <<r>> : r \in InvalidRecords }
    \cup { <<[timestamp |-> 0, emotion |-> "SAD"],
             [timestamp |-> 0, emotion |-> Absent]>>,
           <<[timestamp |-> NotANumber, emotion |-> "HAPPY"],
             [timestamp |-> 0, emotion |-> "SAD"]>> }

\* (fault) a handler that takes the body as it comes
EmotionBatchUnvalidated(body) == TRUE

\* class EmotionRecord(timestamp: float, emotion: str) and class
\* EmotionBatch(emotions: List[EmotionRecord]): both keys required, the
\* timestamp a number, for every record of the list
EmotionBatch(body) ==
    \A k \in 1..Len(body) :
        /\ body[k].timestamp # NotANumber
        /\ body[k].emotion # Absent

\* POST /emotions/batch with a given body.  The body is validated against
\* EmotionBatch before the handler runs: a body that fails is answered 422.
\* Otherwise executemany starts: the first INSERT of a non-empty batch takes
\* the write lock
PostEmotionsBatch(c, batch) ==
    IF ~EmotionBatch(batch)
    THEN /\ resp' = [op |-> "save", status |-> 422, count |-> 0]
         /\ UNCHANGED <<conn, lock>>
    ELSE /\ Len(store) + Len(batch) <= MaxRows
         /\ nextId + Len(batch) <= MaxId + 1
         /\ IF batch = <<>>
            THEN /\ conn' = [conn EXCEPT ![c] = [Idle EXCEPT !.op = "insert"]]
                 /\ lock' = lock
            ELSE /\ lock = 0
                 /\ lock' = c
                 /\ conn' = [conn EXCEPT ![c] =
                        [op |-> "insert", confirm |-> FALSE, batch |-> batch,
                         k |-> 1,
                         pending |-> InsertRows(<<>>, <<batch[1]>>, nextId, clock)]]
         /\ resp' = NoResp

\* a save request with a body of well-formed records arrives
SaveBegin(c) ==
    /\ conn[c].op = "none"
    /\ \E batch \in Batches : PostEmotionsBatch(c, batch)
    /\ UNCHANGED <<store, nextId, saved, clock, sessVars, migVars, camVars>>

\* a save request with a body that holds an invalid record arrives
SaveInvalid(c) ==
    /\ conn[c].op = "none"
    /\ \E body \in InvalidBodies : PostEmotionsBatch(c, body)
    /\ UNCHANGED <<store, nextId, saved, clock, sessVars, migVars, camVars>>

\* a non-empty batch cannot take the write lock in time: the request answers 500
SaveBusy(c) ==
    /\ conn[c].op = "none"
    /\ lock # 0
    /\ resp' = [op |-> "save", status |-> 500, count |-> 0]
    /\ UNCHANGED <<conn, lock, store, nextId, saved, clock, sessVars, migVars, camVars>>

\* executemany: the next INSERT of the batch, inside the transaction
InsertRow(c) ==
    /\ conn[c].op = "insert"
    /\ conn[c].k < Len(conn[c].batch)
    /\ conn' = [conn EXCEPT ![c].k = @ + 1,
                  ![c].pending = InsertRows(@, <<conn[c].batch[conn[c].k + 1]>>,
                                            nextId + Len(@), clock)]
    /\ resp' = NoResp
    /\ UNCHANGED <<store, nextId, lock, saved, clock, sessVars, migVars, camVars>>

\* conn.commit() and the 200 response
SaveCommit(c) ==
    /\ conn[c].op = "insert"
    /\ conn[c].k = Len(conn[c].batch)
    /\ store' = store \o conn[c].pending
    /\ nextId' = nextId + Len(conn[c].pending)
    /\ lock' = IF lock = c THEN 0 ELSE lock
    /\ saved' = saved + Len(conn[c].batch)
    /\ resp' = [op |-> "save", status |-> 200,
                count |-> Len(conn[c].batch)]
    /\ conn' = [conn EXCEPT ![c] = Idle]
    /\ UNCHANGED <<clock, sessVars, migVars, camVars>>

\* an INSERT or the commit fails: the
\* exception closes the connection and the request answers 500
SaveFail(c) ==
    /\ conn[c].op = "insert"
    /\ conn[c].batch # <<>>
    /\ store' = store \o RolledBack(conn[c].pending)
    /\ lock' = IF lock = c THEN 0 ELSE lock
    /\ resp' = [op |-> "save", status |-> 500, count |-> 0]
    /\ conn' = [conn EXCEPT ![c] = Idle]
    /\ UNCHANGED <<nextId, saved, clock, sessVars, migVars, camVars>>

\* DELETE /emotions/clear arrives: rejected without confirmation, otherwise
\* DELETE FROM emotions runs inside a transaction
ClearBegin(c) ==
    /\ conn[c].op = "none"
    /\ \E confirm \in BOOLEAN :
        IF ConfirmMissing(confirm)
        THEN /\ resp' = [op |-> "clear", status |-> 400,
                         confirm |-> confirm, removed |-> 0]
             /\ UNCHANGED <<conn, lock>>
        ELSE /\ lock = 0
             /\ lock' = c
             /\ conn' = [conn EXCEPT ![c] =
                            [Idle EXCEPT !.op = "clear", !.confirm = confirm]]
             /\ resp' = NoResp
    /\ UNCHANGED <<store, nextId, saved, clock, sessVars, migVars, camVars>>

\* a confirmed clear that cannot take the write lock in time answers 500
ClearBusy(c) ==
    /\ conn[c].op = "none"
    /\ lock # 0
    /\ resp' = [op |-> "clear", status |-> 500,
                confirm |-> TRUE, removed |-> 0]
    /\ UNCHANGED <<conn, lock, store, nextId, saved, clock, sessVars, migVars, camVars>>

\* (fault) a delete that removes the oldest row only
DeleteFromEmotionsOldest(rows) == IF rows = <<>> THEN <<>> ELSE Tail(rows)

\* cursor.execute("DELETE FROM emotions"): no WHERE clause, every row goes
DeleteFromEmotions(rows) == <<>>

\* conn.commit() of the clear and the 200 response
ClearCommit(c) ==
    /\ conn[c].op = "clear"
    /\ store' = DeleteFromEmotions(store)
    /\ lock' = 0
    /\ saved' = 0
    /\ resp' = [op |-> "clear", status |-> 200,
                confirm |-> conn[c].confirm, removed |-> Len(store)]
    /\ conn' = [conn EXCEPT ![c] = Idle]
    /\ UNCHANGED <<nextId, clock, sessVars, migVars, camVars>>

GetSummary(c) ==
    /\ conn[c].op = "none"
    /\ resp' = [op |-> "summary", status |-> 200,
                body |-> get_emotion_summary(store)]
    /\ UNCHANGED <<conn, lock, store, nextId, saved, clock, sessVars, migVars, camVars>>

GetDailyStats(c) ==
    /\ conn[c].op = "none"
    /\ \E days \in 0..1 :
        resp' = [op |-> "daily-stats", status |-> 200, days |-> days,
                 body |-> get_daily_emotion_stats(store, days, clock)]
    /\ UNCHANGED <<conn, lock, store, nextId, saved, clock, sessVars, migVars, camVars>>

GetExport(c) ==
    /\ conn[c].op = "none"
    /\ \E format \in {"json", "csv"} :
        resp' = [op |-> "export", status |-> 200,
                 body |-> export_emotions(store, format)]
    /\ UNCHANGED <<conn, lock, store, nextId, saved, clock, sessVars, migVars, camVars>>

StoreNext ==
    \/ \E c \in Clients : SaveBegin(c)
    \/ \E c \in Clients : SaveBusy(c)
    \/ \E c \in Clients : InsertRow(c)
    \/ \E c \in Clients : SaveCommit(c)
    \/ \E c \in Clients : SaveFail(c)
    \/ \E c \in Clients : ClearBegin(c)
    \/ \E c \in Clients : ClearBusy(c)
    \/ \E c \in Clients : ClearCommit(c)
    \/ \E c \in Clients : GetSummary(c)
    \/ \E c \in Clients : GetDailyStats(c)
    \/ \E c \in Clients : GetExport(c)

SpecStore == StoreInit /\ [][StoreNext]_vars

\* the writers of the store, with save requests of any body
SaveNext ==
    \/ \E c \in Clients : SaveBegin(c)
    \/ \E c \in Clients : SaveInvalid(c)
    \/ \E c \in Clients : SaveBusy(c)
    \/ \E c \in Clients : InsertRow(c)
    \/ \E c \in Clients : SaveCommit(c)
    \/ \E c \in Clients : SaveFail(c)
    \/ \E c \in Clients : ClearBegin(c)
    \/ \E c \in Clients : ClearBusy(c)
    \/ \E c \in Clients : ClearCommit(c)

SpecSave == StoreInit /\ [][SaveNext]_vars

(***************************************************************************)
(* The read queries on a store that already holds rows: any rows of two    *)
(* emotions at two times of one day and at a time of the next day, and of  *)
(* a third emotion on the next day.                                        *)
(***************************************************************************)
QueryRecords ==
    [timestamp : {0, 1, SecondsPerDay}, emotion : Emotions]
    \cup {[timestamp |-> SecondsPerDay, emotion |-> "ANGRY"]}

QueryBatches == UNION { [1..n -> QueryRecords] : n \in 0..(MaxRows + 1) }

\* the table after some batches were saved, at the time the reads are served
QueryInit ==
    /\ variant = "frontend"
    /\ running = FALSE
    /\ emotions_batch = <<>>
    /\ frame_count = 0
    /\ pc = "idle"
    /\ i = 0
    /\ camera = "none"
    /\ clock = MaxClock
    /\ \E batch \in QueryBatches : store = NewRows(batch, 1, 0)
    /\ nextId = Len(store) + 1
    /\ ev = Event("init")
    /\ recorded = <<>>
    /\ handed = <<>>
    /\ conn = [c \in Clients |-> Idle]
    /\ lock = 0
    /\ resp = NoResp
    /\ saved = Len(store)
    /\ files = NoFiles
    /\ mig = NoRun
    /\ tabs = NoTabs

\* the reads of one connection
Reader == CHOOSE c \in Clients : TRUE

QueryNext ==
    \/ GetSummary(Reader)
    \/ GetDailyStats(Reader)
    \/ GetExport(Reader)

SpecQuery == QueryInit /\ [][QueryNext]_vars

(***************************************************************************)
(* The classifier wrappers on any response of the service: up to           *)
(* MaxEntries faces, each with up to MaxEntries emotion entries.           *)
(***************************************************************************)
EmotionLists == UNION { [1..n -> Emotions] : n \in 0..MaxEntries }

FaceLists == UNION { [1..n -> EmotionLists] : n \in 0..MaxEntries }

ClassifierCalls ==
    [encoded : BOOLEAN, status : {"ok", "error", "transport"}, faces : FaceLists]

\* a frame and the answer the service will give for it, before the call
ClassifyInit ==
    /\ variant \in Variants
    /\ running = FALSE
    /\ emotions_batch = <<>>
    /\ frame_count = 0
    /\ pc = "idle"
    /\ i = 0
    /\ camera = "none"
    /\ clock = 0
    /\ store = <<>>
    /\ nextId = 1
    /\ \E call \in ClassifierCalls : ev = [Event("init") EXCEPT !.call = call]
    /\ recorded = <<>>
    /\ handed = <<>>
    /\ conn = [c \in Clients |-> Idle]
    /\ lock = 0
    /\ resp = NoResp
    /\ saved = 0
    /\ files = NoFiles
    /\ mig = NoRun
    /\ tabs = NoTabs

\* detect_emotion(frame) of logic/facial_analysis.py is called
CallDetectEmotion ==
    /\ ev' = [Event("detect_emotion") EXCEPT
                 !.call = ev.call,
                 !.res = detect_emotion(ev.call),
                 !.calls = detect_faces_calls(ev.call)]
    /\ UNCHANGED <<variant, running, emotions_batch, frame_count, pc, i, camera,
                   recorded, handed, dbVars, apiVars, migVars, camVars, clock>>

\* POST /detect-emotion is served: the upload is passed to the service as it
\* came, and an exception becomes a 500
PostDetectEmotion ==
    /\ ev.call.encoded
    /\ ev' = [Event("detect-emotion") EXCEPT
                 !.call = ev.call,
                 !.res = backend_detect_emotion(ev.call),
                 !.calls = detect_faces_calls(ev.call)]
    /\ UNCHANGED <<variant, running, emotions_batch, frame_count, pc, i, camera,
                   recorded, handed, dbVars, apiVars, migVars, camVars, clock>>

ClassifyNext ==
    \/ CallDetectEmotion
    \/ PostDetectEmotion

SpecClassify == ClassifyInit /\ [][ClassifyNext]_vars

(***************************************************************************)
(* The migration script migrate_data.py: emotions.db (the source, written  *)
(* by the standalone app) is copied over data/emotions.db (the target) and *)
(* the copy's table is rebuilt with the new columns.  Runs follow one      *)
(* another; each step of a run can fail.                                   *)
(***************************************************************************)
\* the table of the standalone app
OldSchema == <<"timestamp", "emotion">>

Columns(file) == {file.columns[k] : k \in 1..Len(file.columns)}

Sources ==
    {Missing, Corrupt, Database(<<>>, <<>>)}
    \cup {Database(OldSchema, batch) : batch \in Batches}
    \cup {Database(Schema, NewRows(batch, 2, 0)) : batch \in Batches}

Targets ==
    {Missing, Database(Schema, <<>>)}
    \cup {Database(Schema, NewRows(<<r>>, 1, 0)) : r \in RecordSet}

MigrateInit ==
    /\ variant = "standalone"
    /\ running = FALSE
    /\ emotions_batch = <<>>
    /\ frame_count = 0
    /\ pc = "idle"
    /\ i = 0
    /\ camera = "none"
    /\ clock = 0
    /\ store = <<>>
    /\ nextId = 1
    /\ ev = Event("init")
    /\ recorded = <<>>
    /\ handed = <<>>
    /\ conn = [c \in Clients |-> Idle]
    /\ lock = 0
    /\ resp = NoResp
    /\ saved = 0
    /\ \E old \in Sources, new \in Targets :
          files = [NoFiles EXCEPT !.old = old, !.new = new]
    /\ mig = NoRun
    /\ tabs = NoTabs

\* (fault) a run that never backs the target up
NeedsBackupNever(target) == FALSE

\* if os.path.exists(new_db_path)
NeedsBackup(target) == target.kind # "missing"

\* (fault) a run that rebuilds the table whatever its columns are
NeedsUpgradeAlways(file) == TRUE

\* if "id" not in columns
NeedsUpgrade(file) == "id" \notin Columns(file)

\* (fault) a copy that skips a row equal to one already copied
MigratedRowsDistinct(rows, now) ==
    NewRows(SelectSeq([k \in 1..Len(rows) |->
                          [n |-> k, timestamp |-> rows[k].timestamp,
                           emotion |-> rows[k].emotion]],
                      LAMBDA r : \A j \in 1..(r.n - 1) :
                          rows[j].timestamp # r.timestamp
                          \/ rows[j].emotion # r.emotion),
            1, now)

\* INSERT INTO emotions_new (timestamp, emotion) SELECT timestamp, emotion
\* FROM emotions: ids from 1, created_at the time of the insert
MigratedRows(rows, now) == NewRows(rows, 1, now)

\* the run is over: the function returned or an exception left it
RunOver(run, outcome) == [run EXCEPT !.pc = "idle", !.outcome = outcome, !.tx = Missing]

\* migrate_database is called: nothing to do without a source
MigrateStart ==
    /\ mig.pc = "idle"
    /\ mig.runs < MaxRuns
    /\ mig' = [mig EXCEPT !.runs = @ + 1,
                          !.pc = IF files.old.kind = "missing" THEN "idle" ELSE "backup",
                          !.outcome = IF files.old.kind = "missing"
                                      THEN "nothing" ELSE "running",
                          !.src = files.old, !.pre = files.new,
                          !.overwritten = FALSE, !.tx = Missing]
    /\ UNCHANGED <<files, sessVars, dbVars, apiVars, camVars, clock>>

\* the backup of an existing target, under a name made of the current time;
\* shutil.copy2 can raise, leaving at most a partial backup file
MigrateBackup ==
    /\ mig.pc = "backup"
    /\ IF NeedsBackup(files.new)
       THEN \E ok \in BOOLEAN, partial \in BOOLEAN :
               IF ok
               THEN /\ ~partial
                    /\ files' = [files EXCEPT !.backups[clock] = files.new]
                    /\ mig' = [mig EXCEPT !.pc = "copy", !.at = clock]
               ELSE /\ files' = IF partial
                                THEN [files EXCEPT !.backups[clock] = Corrupt]
                                ELSE files
                    /\ mig' = [RunOver(mig, "crashed") EXCEPT !.at = clock]
       ELSE /\ files' = files
            /\ mig' = [mig EXCEPT !.pc = "copy", !.at = clock]
    /\ UNCHANGED <<sessVars, dbVars, apiVars, camVars, clock>>

\* shutil.copy2(old_db_path, new_db_path): the target becomes a copy of the
\* source; a copy that raises leaves the target as it was or partly written
MigrateCopy ==
    /\ mig.pc = "copy"
    /\ \E ok \in BOOLEAN, partial \in BOOLEAN :
          IF ok
          THEN /\ ~partial
               /\ files' = [files EXCEPT !.new = files.old]
               /\ mig' = [mig EXCEPT !.pc = "pragma", !.overwritten = TRUE]
          ELSE /\ files' = IF partial THEN [files EXCEPT !.new = Corrupt] ELSE files
               /\ mig' = [RunOver(mig, "crashed") EXCEPT !.overwritten = partial]
    /\ UNCHANGED <<sessVars, dbVars, apiVars, camVars, clock>>

\* sqlite3.connect and PRAGMA table_info(emotions): a file that is not a
\* database raises, which the except clause reports
MigratePragma ==
    /\ mig.pc = "pragma"
    /\ mig' = IF files.new.kind # "db" THEN RunOver(mig, "error")
              ELSE [mig EXCEPT !.pc = IF NeedsUpgrade(files.new)
                                      THEN "create" ELSE "commit",
                               !.tx = files.new]
    /\ UNCHANGED <<files, sessVars, dbVars, apiVars, camVars, clock>>

\* CREATE TABLE emotions_new: run outside a transaction, so it is committed
\* at once
MigrateCreate ==
    /\ mig.pc = "create"
    /\ files.new.staged = <<>>
    /\ files' = [files EXCEPT !.new.staged = << <<>> >>]
    /\ mig' = [mig EXCEPT !.pc = "insert", !.tx.staged = << <<>> >>]
    /\ UNCHANGED <<sessVars, dbVars, apiVars, camVars, clock>>

\* INSERT INTO emotions_new ... SELECT ... FROM emotions: opens the
\* transaction; without a table emotions the statement can only fail
MigrateInsert ==
    /\ mig.pc = "insert"
    /\ mig.tx.columns # <<>>
    /\ mig' = [mig EXCEPT !.pc = "swap",
                          !.tx.staged = << MigratedRows(mig.tx.rows, clock) >>]
    /\ UNCHANGED <<files, sessVars, dbVars, apiVars, camVars, clock>>

\* DROP TABLE emotions; ALTER TABLE emotions_new RENAME TO emotions
MigrateSwap ==
    /\ mig.pc = "swap"
    /\ mig' = [mig EXCEPT !.pc = "commit",
                          !.tx = Database(Schema, mig.tx.staged[1])]
    /\ UNCHANGED <<files, sessVars, dbVars, apiVars, camVars, clock>>

\* the statistics queries, conn.commit() and "Migration complete!"
MigrateCommit ==
    /\ mig.pc = "commit"
    /\ files' = [files EXCEPT !.new = mig.tx]
    /\ mig' = [RunOver(mig, "complete") EXCEPT !.done = mig.tx, !.before = mig.done]
    /\ UNCHANGED <<sessVars, dbVars, apiVars, camVars, clock>>

\* a statement inside the try raises: the except clause reports it and rolls
\* the transaction back, the finally clause closes the connection
MigrateFail ==
    /\ mig.pc \in {"create", "insert", "swap", "commit"}
    /\ mig' = RunOver(mig, "error")
    /\ UNCHANGED <<files, sessVars, dbVars, apiVars, camVars, clock>>

\* time passes between and during runs
Tick ==
    /\ clock < MaxClock
    /\ clock' = clock + 1
    /\ UNCHANGED <<sessVars, dbVars, apiVars, migVars, camVars>>

MigrateNext ==
    \/ MigrateStart
    \/ MigrateBackup
    \/ MigrateCopy
    \/ MigratePragma
    \/ MigrateCreate
    \/ MigrateInsert
    \/ MigrateSwap
    \/ MigrateCommit
    \/ MigrateFail
    \/ Tick

SpecMigrate == MigrateInit /\ [][MigrateNext]_vars

(***************************************************************************)
(* Several browser sessions and the one camera.  Each browser session runs *)
(* the same script with its own st.session_state; the script opens device  *)
(* 0 whenever its session is running.  Whether a second open of a device   *)
(* that is already open succeeds is up to the platform: both outcomes      *)
(* occur.                                                                  *)
(***************************************************************************)
\* the device is held by a capture loop of another browser session
HeldByOther(t) ==
    \E u \in Tabs \ {t} : tabs[u].pc = "loop" /\ tabs[u].cap = "open"

\* the Start button of a browser session: enabled while that session is not
\* running, whatever the other sessions do
TabStart(t) ==
    /\ tabs[t].pc = "idle"
    /\ ~tabs[t].running
    /\ tabs' = [tabs EXCEPT ![t].running = TRUE, ![t].pc = "rerun",
                          ![t].ev = "start"]
    /\ UNCHANGED <<sessVars, dbVars, apiVars, migVars, clock>>

\* the Stop button: the script run in the loop is ended where it is, without
\* cap.release(), and the handler runs in the next script run
TabStop(t) ==
    /\ tabs[t].pc \in {"idle", "loop"}
    /\ tabs[t].running
    /\ tabs' = [tabs EXCEPT ![t].running = FALSE, ![t].pc = "rerun", ![t].i = 0,
                          ![t].ev = "stop"]
    /\ UNCHANGED <<sessVars, dbVars, apiVars, migVars, clock>>

\* a script run down to the loop: cap = cv2.VideoCapture(0), unconditionally
\* and unchecked; the open works on a free device, and on a held one it
\* works or not
TabScriptRun(t) ==
    /\ tabs[t].pc = "rerun"
    /\ IF tabs[t].running
       THEN \E opened \in BOOLEAN :
               /\ ~HeldByOther(t) => opened
               /\ tabs' = [tabs EXCEPT ![t].pc = "loop", ![t].i = 0,
                              ![t].cap = IF opened THEN "open" ELSE "failed",
                              ![t].ev = "run"]
       ELSE tabs' = [tabs EXCEPT ![t].pc = "idle", ![t].i = 0, ![t].ev = "run"]
    /\ UNCHANGED <<sessVars, dbVars, apiVars, migVars, clock>>

\* ret, frame = cap.read() returns a frame
TabFrame(t) ==
    /\ tabs[t].pc = "loop"
    /\ tabs[t].running
    /\ tabs[t].i < FramesPerRun
    /\ tabs[t].cap = "open"
    /\ tabs' = [tabs EXCEPT ![t].i = @ + 1, ![t].ev = "frame"]
    /\ UNCHANGED <<sessVars, dbVars, apiVars, migVars, clock>>

\* cap.read() returns no frame, as it always does on a capture that did not
\* open: warning, running = False, break, cap.release()
TabReadFail(t) ==
    /\ tabs[t].pc = "loop"
    /\ tabs[t].running
    /\ tabs[t].i < FramesPerRun
    /\ tabs' = [tabs EXCEPT ![t] = [NoTab EXCEPT !.ev = "readfail"]]
    /\ UNCHANGED <<sessVars, dbVars, apiVars, migVars, clock>>

\* the loop is exhausted: cap.release(), and st.rerun() as the session is
\* still running
TabLoopExit(t) ==
    /\ tabs[t].pc = "loop"
    /\ tabs[t].i = FramesPerRun
    /\ tabs' = [tabs EXCEPT ![t].pc = "rerun", ![t].cap = "none", ![t].i = 0,
                          ![t].ev = "exit"]
    /\ UNCHANGED <<sessVars, dbVars, apiVars, migVars, clock>>

CameraNext ==
    \/ \E t \in Tabs : TabStart(t)
    \/ \E t \in Tabs : TabStop(t)
    \/ \E t \in Tabs : TabScriptRun(t)
    \/ \E t \in Tabs : TabFrame(t)
    \/ \E t \in Tabs : TabReadFail(t)
    \/ \E t \in Tabs : TabLoopExit(t)

SpecCamera == Init /\ [][CameraNext]_vars

(***************************************************************************)
(* Properties of the capture session                                       *)
(***************************************************************************)
NonSentinel(seq) == SelectSeq(seq, LAMBDA r : r.emotion # NoFace)

RecordsOf(rows) == [k \in 1..Len(rows) |->
                      [timestamp |-> rows[k].timestamp, emotion |-> rows[k].emotion]]

IsSuffix(s, t) ==
    /\ Len(s) <= Len(t)
    /\ \A k \in 1..Len(s) : s[k] = t[Len(t) - Len(s) + k]

\* C1: when the store write of a flush fails (threshold flush or flush on
\* Stop), the batch still holds, in order, every record it was handed with.
C1_FailedFlushKeepsBatch ==
    ev.flush = "fail" => emotions_batch = ev.batch

\* C2: the records handed to the store by flushes are exactly the recorded
\* results other than "NO FACE", in recorded order, each once (stated for a
\* session that has ended), and right after a successful flush the batch is
\* empty.
C2_FlushesHandExactlyRecorded ==
    /\ (pc = "idle" /\ ~running) => handed = NonSentinel(recorded)
    /\ ev.flush = "ok" => emotions_batch = <<>>

\* C3: an append that brings the batch to BATCH_SIZE triggers a flush of the
\* whole batch in the same loop step, and if the store write works the batch
\* is empty when the step ends; an append that leaves the batch below
\* BATCH_SIZE triggers no flush.
C3_ThresholdFlush ==
    ev.appended =>
        /\ ev.size >= BATCH_SIZE =>
              /\ ev.flush # "none"
              /\ Len(ev.batch) = ev.size
              /\ ev.flush = "ok" => Len(emotions_batch) = 0
        /\ ev.size < BATCH_SIZE =>
              /\ ev.flush = "none"
              /\ Len(emotions_batch) = ev.size

C3_Witness ==
    /\ ev.appended
    /\ ev.size = BATCH_SIZE
    /\ ev.flush = "ok"
    /\ emotions_batch = <<>>
    /\ Len(store) = BATCH_SIZE

\* C4: a sampled frame for which the service reports zero faces yields the
\* "NO FACE" sentinel, and recording it changes neither the batch nor the
\* store and triggers no flush.
C4_NoFaceIsNoOp ==
    [][ (ev'.op = "sample" /\ ev'.call.encoded /\ ev'.call.status = "ok"
            /\ ev'.call.faces = <<>>)
        => /\ recorded' = Append(recorded, [timestamp |-> clock', emotion |-> NoFace])
           /\ emotions_batch' = emotions_batch
           /\ store' = store
           /\ handed' = handed
           /\ ev'.flush = "none"
           /\ ~ev'.appended ]_vars

C4_Witness ==
    /\ ev.op = "sample"
    /\ ev.call.encoded /\ ev.call.status = "ok" /\ ev.call.faces = <<>>
    /\ emotions_batch # <<>>
    /\ recorded[Len(recorded)].emotion = NoFace

\* C5: whenever tracking goes from running to stopped with a non-empty batch,
\* that batch is handed to the store's bulk insert in the stopping step, and
\* if the store write works the batch is then empty and its records are the
\* last rows of the store.
C5_StopFlushesBatch ==
    [][ (running /\ ~running' /\ emotions_batch # <<>>)
        => /\ ev'.flush # "none"
           /\ ev'.batch = emotions_batch
           /\ ev'.flush = "ok" =>
                 /\ emotions_batch' = <<>>
                 /\ IsSuffix(emotions_batch, RecordsOf(store')) ]_vars

\* C6: a script run that has left the capture loop (loop exhausted, camera
\* read failure, or a classification or a flush that failed in the loop) has
\* released the camera it opened.
C6_CameraReleasedWhenRunEnds ==
    (ev.op \in {"exit", "readfail", "sample"} /\ pc # "loop") => camera = "none"

(***************************************************************************)
(* Properties of the store                                                 *)
(***************************************************************************)
\* C7: a clear without confirmation is answered 400 and changes nothing (no
\* row, no transaction, no lock); a clear with confirm=true that completes
\* leaves zero rows, whether or not the store held rows, and a confirmed
\* clear is never answered 400.
C7_ClearNeedsConfirmation ==
    [][ resp'.op = "clear" =>
          /\ ~resp'.confirm =>
                /\ resp'.status = 400
                /\ store' = store /\ nextId' = nextId
                /\ conn' = conn /\ lock' = lock
          /\ resp'.confirm => resp'.status \in {200, 500}
          /\ (resp'.confirm /\ resp'.status = 200) =>
                /\ store' = <<>>
                /\ resp'.removed = Len(store)
                /\ get_emotion_summary(store').total_emotions_recorded = 0 ]_vars

C7_Witness ==
    /\ resp.op = "clear"
    /\ resp.confirm
    /\ resp.status = 200
    /\ resp.removed > 0
    /\ store = <<>>

\* C8: the total of a summary and the number of rows of an export (json or
\* csv) equal the sum of the sizes of the batches saved since the last clear,
\* empty batches and batches with duplicate records included.
C8_CountsMatchSaved ==
    /\ resp.op = "summary" => resp.body.total_emotions_recorded = saved
    /\ resp.op = "export" => Len(resp.body.data) = saved
    /\ resp.op = "save" /\ resp.status = 200 =>
          get_emotion_summary(store).total_emotions_recorded = saved

C8_Witness ==
    /\ resp.op = "export"
    /\ saved > 1
    /\ nextId > saved + 1
    /\ \E j, k \in 1..Len(store) :
          j < k /\ RecordsOf(store)[j] = RecordsOf(store)[k]

\* C9: every step changes the rows a reader can see either not at all, or by
\* adding all the records of one request's batch, or by removing every row:
\* never part of a batch, never part of a clear, also when a request fails
\* after some of its inserts.
C9_WritesAreAtomic ==
    [][ \/ store' = store
        \/ \E c \in Clients :
              /\ conn[c].op = "insert"
              /\ RecordsOf(store') = RecordsOf(store) \o conn[c].batch
        \/ \E c \in Clients :
              /\ conn[c].op = "clear"
              /\ store' = <<>> ]_vars

C9_Witness ==
    /\ \E c \in Clients :
          /\ conn[c].op = "insert"
          /\ conn[c].k >= 1
          /\ conn[c].k < Len(conn[c].batch)
    /\ store # <<>>
    /\ resp.op = "export"
    /\ Len(resp.body.data) = Len(store)

\* C10: on an empty store every read answers 200: the summary with total 0,
\* an empty distribution and null most-recent and date-range values, the
\* daily stats with no entry, the export with no rows.
C10_ReadsOfEmptyStore ==
    store = <<>> =>
        /\ resp.op \in {"summary", "daily-stats", "export"} => resp.status = 200
        /\ resp.op = "summary" =>
              /\ resp.body.total_emotions_recorded = 0
              /\ DOMAIN resp.body.emotion_distribution = {}
              /\ resp.body.most_recent = [emotion |-> Null, timestamp |-> Null]
              /\ resp.body.date_range = [start |-> Null, end |-> Null]
        /\ resp.op = "daily-stats" => resp.body = {}
        /\ resp.op = "export" => resp.body.data = <<>> /\ resp.body.header = <<>>

C10_Witness ==
    /\ store = <<>>
    /\ nextId > 1
    /\ resp.op = "summary"
    /\ resp.body.total_emotions_recorded = 0

(***************************************************************************)
(* Properties of the read queries                                          *)
(***************************************************************************)
RECURSIVE SumOfPercentages(_)
SumOfPercentages(entries) ==
    IF entries = {} THEN 0
    ELSE LET x == CHOOSE y \in entries : TRUE
         IN  x.percentage + SumOfPercentages(entries \ {x})

\* what the test of the percentages allows: 99.9 to 100.1, in hundredths
WithinTolerance(sum) == sum >= 9990 /\ sum <= 10010

SummaryEntries(body) ==
    { [emotion |-> e, percentage |-> body.emotion_distribution[e].percentage] :
        e \in DOMAIN body.emotion_distribution }

\* C11: whenever the store holds a row, the percentages of a summary over
\* all its emotions sum to 100 within the tolerance, and so do the
\* percentages of the daily stats over the entries of each returned day; a
\* day of which no row is counted has no entry.
C11_PercentagesSumTo100 ==
    /\ (resp.op = "summary" /\ store # <<>>) =>
          WithinTolerance(SumOfPercentages(SummaryEntries(resp.body)))
    /\ resp.op = "daily-stats" =>
          \A x \in resp.body :
              /\ WithinTolerance(SumOfPercentages(
                    { [emotion |-> y.emotion, percentage |-> y.percentage] :
                        y \in {z \in resp.body : z.date = x.date} }))
              /\ x.count >= 1
              /\ \E k \in 1..Len(store) : DateOf(store[k].timestamp) = x.date

C11_Witness ==
    /\ resp.op = "daily-stats"
    /\ \E x, y \in resp.body :
          /\ x.date = y.date /\ x.percentage = 3333 /\ y.percentage = 6667
    /\ \E x, y \in resp.body : x.date # y.date

EmotionCount(rows, e) == Cardinality({k \in 1..Len(rows) : rows[k].emotion = e})

\* p hundredths of a percent is 100 * count / total rounded to two decimals
IsRoundedShare(p, count, total) ==
    /\ 2 * (p * total - 10000 * count) <= total
    /\ 2 * (10000 * count - p * total) <= total

\* C12: a summary lists exactly the emotions present in the store, each with
\* the number of stored rows of that emotion as count and 100 * count / total
\* rows rounded to two decimals as percentage; for the rows HAPPY, HAPPY, SAD,
\* ANGRY the total is 4 and the percentages are 50, 25 and 25.
C12_SummaryCountsAndShares ==
    resp.op = "summary" =>
        LET dist == resp.body.emotion_distribution
        IN  /\ DOMAIN dist = {store[k].emotion : k \in 1..Len(store)}
            /\ \A e \in DOMAIN dist :
                  /\ dist[e].count = EmotionCount(store, e)
                  /\ IsRoundedShare(dist[e].percentage, EmotionCount(store, e),
                                    Len(store))
            /\ (/\ Len(store) = 4
                /\ EmotionCount(store, "HAPPY") = 2
                /\ EmotionCount(store, "SAD") = 1
                /\ EmotionCount(store, "ANGRY") = 1)
               => /\ resp.body.total_emotions_recorded = 4
                  /\ dist["HAPPY"].percentage = 5000
                  /\ dist["SAD"].percentage = 2500
                  /\ dist["ANGRY"].percentage = 2500

C12_Witness ==
    /\ resp.op = "summary"
    /\ resp.body.total_emotions_recorded = 4
    /\ EmotionCount(store, "HAPPY") = 2
    /\ EmotionCount(store, "SAD") = 1
    /\ EmotionCount(store, "ANGRY") = 1
    /\ DOMAIN resp.body.emotion_distribution = {"HAPPY", "SAD", "ANGRY"}

DayCount(rows, d) == Cardinality({k \in 1..Len(rows) : DateOf(rows[k].timestamp) = d})

DayEmotionCount(rows, d, e) ==
    Cardinality({k \in 1..Len(rows) :
                    DateOf(rows[k].timestamp) = d /\ rows[k].emotion = e})

\* C13: every entry of daily-stats(days) has as count the number of stored
\* rows of its emotion on its calendar day and as percentage that count's
\* share of all stored rows of that day; a (day, emotion) pair has at most
\* one entry, and no entry is of a day before the trailing window.
C13_DailyStatsCountTheDay ==
    resp.op = "daily-stats" =>
        /\ \A x \in resp.body :
              /\ x.count = DayEmotionCount(store, x.date, x.emotion)
              /\ IsRoundedShare(x.percentage,
                                DayEmotionCount(store, x.date, x.emotion),
                                DayCount(store, x.date))
              /\ x.date >= DateOf(clock - resp.days * SecondsPerDay)
        /\ \A x, y \in resp.body :
              (x.date = y.date /\ x.emotion = y.emotion) => x = y

\* the fields of exported row k, read by their keys (json) or by the
\* position of their names in the header line (csv)
ExportedRow(body, k) ==
    IF body.format = "csv"
    THEN [f \in {body.header[j] : j \in 1..Len(body.header)} |->
            body.data[k][CHOOSE j \in 1..Len(body.header) : body.header[j] = f]]
    ELSE body.data[k]

Exported(body) == [k \in 1..Len(body.data) |-> ExportedRow(body, k)]

StoredFields(r, fields) == [f \in fields |-> r[f]]

\* C14: an export returns every stored row exactly once (as many exported
\* rows with given field values as stored rows with them), in descending
\* order of timestamp, and the csv export holds the same rows in the same
\* order as the json export of the same store.
C14_ExportIsEveryRowOrdered ==
    resp.op = "export" =>
        LET out == Exported(resp.body)
            fields == IF out = <<>> THEN {} ELSE DOMAIN out[1]
        IN  /\ Len(out) = Len(store)
            /\ \A j \in 1..Len(store) :
                  Cardinality({k \in 1..Len(out) :
                                  out[k] = StoredFields(store[j], fields)})
                  = Cardinality({k \in 1..Len(store) :
                                  StoredFields(store[k], fields)
                                  = StoredFields(store[j], fields)})
            /\ \A k \in 1..(Len(out) - 1) : out[k].timestamp >= out[k + 1].timestamp
            /\ out = Exported(export_emotions(store, "json"))

C14_Witness ==
    /\ resp.op = "export"
    /\ resp.body.format = "csv"
    /\ Len(resp.body.data) = 4
    /\ store[1].timestamp < store[2].timestamp
    /\ store[3] = [store[2] EXCEPT !.id = 3]
    /\ store[4].timestamp = store[1].timestamp
    /\ store[4].emotion # store[1].emotion

SchemaFields == {Schema[k] : k \in 1..Len(Schema)}

\* C15: every exported row has every column of the table (id, timestamp,
\* emotion, created_at), with the values of a stored row.
C15_ExportHasEveryField ==
    resp.op = "export" =>
        \A k \in 1..Len(resp.body.data) :
            /\ DOMAIN ExportedRow(resp.body, k) = SchemaFields
            /\ \E j \in 1..Len(store) : ExportedRow(resp.body, k) = store[j]

(***************************************************************************)
(* Properties of the classifier wrappers                                   *)
(***************************************************************************)
ClassifierOps == {"detect_emotion", "detect-emotion"}

C17_FailedCallRaisesWithoutRetry ==
    ev.op \in ClassifierOps =>
        /\ (~ev.call.encoded \/ ev.call.status # "ok") =>
              /\ ev.res = Raised
              /\ ev.calls <= 1
        /\ (ev.call.encoded /\ ev.call.status = "ok" /\ ev.call.faces = <<>>) =>
              /\ ~ev.res.raised
              /\ ev.calls = 1

C17_Witness ==
    /\ ev.op = "detect_emotion"
    /\ ev.call.encoded
    /\ ev.call.status = "transport"
    /\ ev.res = Raised
    /\ ev.calls = 1

(***************************************************************************)
(* Properties of the migration                                             *)
(***************************************************************************)
RunComplete == mig.pc = "idle" /\ mig.outcome = "complete"

\* the same columns and the same rows, row by row, but for created_at
SameTable(a, b) ==
    /\ a.kind = "db" /\ b.kind = "db"
    /\ a.columns = b.columns
    /\ a.staged = b.staged
    /\ Len(a.rows) = Len(b.rows)
    /\ \A k \in 1..Len(a.rows) :
          /\ a.rows[k].id = b.rows[k].id
          /\ a.rows[k].timestamp = b.rows[k].timestamp
          /\ a.rows[k].emotion = b.rows[k].emotion

PairCount(rows, r) ==
    Cardinality({k \in 1..Len(rows) :
                    rows[k].timestamp = r.timestamp /\ rows[k].emotion = r.emotion})

\* C19: after a run that completes on a source with the old two columns,
\* the target's table has the columns id, timestamp, emotion and created_at
\* and holds every (timestamp, emotion) pair as many times as the source
\* does, no more and no fewer rows; the source is as it was.
C19_MigrationPreservesRows ==
    (RunComplete /\ mig.src.kind = "db" /\ mig.src.columns = OldSchema) =>
        /\ files.new.kind = "db"
        /\ Columns(files.new) = {"id", "timestamp", "emotion", "created_at"}
        /\ Len(files.new.columns) = 4
        /\ Len(files.new.rows) = Len(mig.src.rows)
        /\ \A r \in RecordSet :
              PairCount(files.new.rows, r) = PairCount(mig.src.rows, r)
        /\ files.old = mig.src

C19_Witness ==
    /\ RunComplete
    /\ mig.src.columns = OldSchema
    /\ Len(mig.src.rows) = 2
    /\ mig.src.rows[1] = mig.src.rows[2]
    /\ Len(files.new.rows) = 2
    /\ files.new.rows[2].id = 2

\* C20: from the moment a run is about to overwrite a target that existed,
\* through the overwrite and to the end of the run, whether it completes,
\* fails or is left by an exception, the backup made by the run holds the
\* content the target had when the run started.
C20_BackupBeforeOverwrite ==
    (mig.pre.kind # "missing" /\ (mig.pc = "copy" \/ mig.overwritten)) =>
        files.backups[mig.at] = mig.pre

C20_Witness ==
    /\ mig.pc = "idle"
    /\ mig.outcome = "error"
    /\ mig.overwritten
    /\ mig.pre.kind = "db"
    /\ mig.pre.rows # <<>>
    /\ files.new # mig.pre
    /\ files.backups[mig.at] = mig.pre

\* C21: a run that fails inside the migration (a source that is not a
\* database, a statement of the rebuild that raises) is reported instead of
\* raised, and the target holds nothing of the failed rebuild: it is as it
\* was before the run or as the copy of the source left it.
C21_FailedRunLeavesNoPartialResult ==
    (mig.pc = "idle" /\ mig.outcome = "error") =>
        \/ files.new = mig.pre
        \/ files.new = mig.src

(***************************************************************************)
(* Further properties of the store                                         *)
(***************************************************************************)
IsPrefix(a, b) == Len(a) <= Len(b) /\ \A k \in 1..Len(a) : b[k] = a[k]

\* C22: no request changes a stored row: over every step of save, summary,
\* daily stats, export and clear, each row the store holds stays where it is
\* with its id, timestamp and emotion and the number of rows does not go
\* down, except when a confirmed clear commits, which leaves no row at all.
C22_StoredRowsImmutable ==
    [][ \/ IsPrefix(store, store')
        \/ \E c \in Clients :
              /\ conn[c].op = "clear"
              /\ conn[c].confirm
              /\ resp'.op = "clear" /\ resp'.status = 200
              /\ store' = <<>> ]_vars

C22_Witness ==
    /\ resp.op = "save"
    /\ resp.status = 200
    /\ resp.count >= 1
    /\ saved > resp.count
    /\ Len(store) = saved
    /\ store[Len(store)].id > Len(store)

(***************************************************************************)
(* Properties of several sessions on one camera                            *)
(***************************************************************************)
\* C23: at most one browser session at a time is in its capture loop with
\* the camera open: a session started while another one holds the camera
\* does not get to read frames beside it.
C23_OneSessionOwnsCamera ==
    \A t, u \in Tabs :
        (t # u /\ tabs[t].pc = "loop" /\ tabs[t].cap = "open")
            => ~(tabs[u].pc = "loop" /\ tabs[u].cap = "open")

\* a record as a valid request sends it: an emotion and a numeric timestamp
WellFormed(record) == record.emotion \in Emotions /\ record.timestamp \in Nat

\* C24: a batch save whose body holds an invalid record (no emotion, a
\* timestamp that is not a number), alone or among valid ones, is never
\* taken up for insertion: no transaction and no row ever holds such a
\* record, and the 422 that answers the request changes no row, no
\* transaction and no lock.
C24_InvalidBatchRejectedWhole ==
    [][ /\ \A c \in Clients :
              \A k \in 1..Len(conn'[c].batch) : WellFormed(conn'[c].batch[k])
        /\ \A k \in 1..Len(store') : WellFormed(store'[k])
        /\ (resp'.op = "save" /\ resp'.status = 422) =>
              /\ store' = store /\ nextId' = nextId /\ saved' = saved
              /\ conn' = conn /\ lock' = lock ]_vars

C24_Witness ==
    /\ resp.op = "save"
    /\ resp.status = 422
    /\ store # <<>>
    /\ \E c \in Clients : conn[c].op = "insert" /\ conn[c].k = 1

(***************************************************************************)
(* Further properties of the capture session                               *)
(***************************************************************************)
\* C25: the frame counter changes only when a frame is read, then by one;
\* the frame is classified exactly when the counter, after that increment,
\* is a multiple of FRAME_SAMPLE_RATE; Start, Stop, a rerun, a read failure
\* and the end of a script run leave the counter as it is.
C25_EveryNthFrameClassified ==
    [][ /\ ev'.op \in {"frame", "sample"} =>
              /\ frame_count' = frame_count + 1
              /\ ev'.sampled <=> frame_count' % FRAME_SAMPLE_RATE = 0
              /\ ev'.op = "sample" <=> ev'.sampled
        /\ ev'.op \notin {"frame", "sample"} => frame_count' = frame_count ]_vars

C25_Witness ==
    /\ ev.op = "sample"
    /\ ev.sampled
    /\ frame_count = 2 * FRAME_SAMPLE_RATE
    /\ i >= 1
    /\ i < FRAME_SAMPLE_RATE
    /\ handed # <<>>

\* C26: the timestamp of an appended record is the time its frame was read,
\* whatever time the classifier call took: in the step that reads the
\* frame, classifies it and appends the record, the record carries the
\* clock of the start of the step.
C26_TimestampIsCaptureTime ==
    [][ ev'.appended => recorded'[Len(recorded')].timestamp = clock ]_vars

NonDecreasing(batch) ==
    \A j, k \in 1..Len(batch) : j < k => batch[j].timestamp <= batch[k].timestamp

\* C27: at every state the batch of the session is in non-decreasing order
\* of timestamp, and so is every batch handed to the store, by a threshold
\* flush or by Stop.
C27_BatchOrderedByTimestamp ==
    /\ NonDecreasing(emotions_batch)
    /\ ev.flush # "none" => NonDecreasing(ev.batch)

C27_Witness ==
    /\ ev.flush # "none"
    /\ Len(ev.batch) >= 2
    /\ ev.batch[1].timestamp < ev.batch[Len(ev.batch)].timestamp

\* C28: the step in which a frame cannot be read sets running to false,
\* counts and classifies no frame, releases the camera and schedules no
\* script run; after it nothing happens in the session until Start is
\* pressed again.
C28_ReadFailureStopsTracking ==
    [][ /\ ev'.op = "readfail" =>
              /\ ~running'
              /\ camera' = "none"
              /\ pc' = "idle"
              /\ frame_count' = frame_count
              /\ recorded' = recorded
              /\ emotions_batch' = emotions_batch
        /\ ev.op = "readfail" => ev'.op = "start" ]_vars

C28_Witness ==
    /\ ev.op = "readfail"
    /\ ~running
    /\ camera = "none"
    /\ frame_count >= FRAME_SAMPLE_RATE
    /\ recorded # <<>>

Elements(seq) == {seq[k] : k \in 1..Len(seq)}

\* C29: every record that was appended to the batch is still in the batch
\* or has been handed to the store's bulk insert by a flush, whatever
\* sequence of Start, frames, read failures, Stop and reruns went by.
C29_RecordsLeaveOnlyByFlush ==
    Elements(NonSentinel(recorded)) \subseteq
        Elements(emotions_batch) \cup Elements(handed)

\* C30: in the standalone app, when the batch is at or over BATCH_SIZE
\* because an automatic flush failed, the next sample that is appended
\* triggers a flush of the whole retained batch with the new record; if the
\* store write works every one of these records becomes one row and the
\* batch is empty, and if it fails again nothing is written and the batch
\* keeps them all.
C30_RetainedBatchFlushedAgain ==
    [][ (variant = "standalone" /\ Len(emotions_batch) >= BATCH_SIZE
            /\ ev'.op = "sample" /\ ev'.appended)
        => /\ ev'.flush # "none"
           /\ Len(ev'.batch) = Len(emotions_batch) + 1
           /\ IsPrefix(emotions_batch, ev'.batch)
           /\ ev'.flush = "ok" =>
                 /\ emotions_batch' = <<>>
                 /\ RecordsOf(store') = RecordsOf(store) \o ev'.batch
           /\ ev'.flush = "fail" =>
                 /\ emotions_batch' = ev'.batch
                 /\ store' = store ]_vars

C30_Witness ==
    /\ variant = "standalone"
    /\ ev.op = "sample"
    /\ ev.flush = "ok"
    /\ Len(ev.batch) = BATCH_SIZE + 1
    /\ emotions_batch = <<>>
    /\ RecordsOf(store) = ev.batch
    /\ Len(handed) = 2 * BATCH_SIZE + 1

====
